---- MODULE Spec2Model ----
(***************************************************************************)
(* Model of the nostr filter wire object (crates/nostr, subscription.rs)   *)
(* and of the relay options (crates/nostr-sdk, relay/options.rs).          *)
(*                                                                         *)
(* Four components share the module, each with its own specification:      *)
(*   FilterSpec   Filter builders, as_json and from_json                   *)
(*   OptionsSpec  RelayOptions handles, their shared atomic cells and the  *)
(*                threads that update and read them                        *)
(*   RelaySpec    the per-relay connection state machine                   *)
(*   CallSpec     sequential calls of the builders, parsers, defaults and  *)
(*                setters (nips/nip01.rs included), with their history     *)
(***************************************************************************)
EXTENDS Integers, Sequences, FiniteSets, TLC

(* Bounds of the explored state space *)
MaxOps == 3
MaxJsonKeys == 2

MaxCalls == 3
MaxHandles == 2
MaxAttempts == 3
MaxText == 5

(* The threads that call update_* on shared RelayOptions *)
Threads == {1, 2}

VARIABLES
    (* filter component *)
    filter,     \* the Filter under construction
    nops,       \* builder calls made on it
    json,       \* the JSON object serialized or received
    parsed,     \* the result of from_json
    fpc,        \* "build", "serialized", "input", "roundtrip" or "decoded"
    (* options component *)
    opts,       \* the RelayOptions values alive, each field naming its Arc cell
    cells,      \* the value of every atomic cell allocated
    thr,        \* per thread: the update_* call it is in
    ncalls,     \* calls made
    lastRead,   \* the last get_* call: its field, the value it returned and
                \* whether that is the cell's initial value or an accepted update
    allowed,    \* history: per cell, its initial value and the accepted updates
    settled,    \* history: per cell, the updates that returned and were not
                \* followed by the call of another accepted update
    shared,     \* history: <<field, h1, h2>> for clones not rebuilt since
    (* relay component *)
    status,     \* RelayStatus
    subs,       \* the relay's subscription table: SubscriptionId -> filters
    sent,       \* the subscriptions whose REQ went out on the current connection
    attempts,   \* connection attempts since the last success
    connections,\* connections established so far (0, 1, or 2 for more)
    lastEvent,  \* the last transition taken
    expected,   \* history: subscribe(s, F) calls not followed by unsubscribe(s)
    (* sequential calls *)
    call,       \* the last call made: its name, and its arguments where a
                \* property reads them
    ret,        \* <<type, method, value>>: the value it returned, under the
                \* call's name; a chained call has the value as receiver
    hist        \* history: the calls made in the chain, and per field what
                \* the calls so far added and did not remove again

filterVars == <<filter, nops, json, parsed, fpc>>
optionsVars == <<opts, cells, thr, ncalls, lastRead, allowed, settled, shared>>
relayVars == <<status, subs, sent, attempts, connections, lastEvent, expected>>
callVars == <<call, ret, hist>>
vars == <<filter, nops, json, parsed, fpc,
          opts, cells, thr, ncalls, lastRead, allowed, settled, shared,
          status, subs, sent, attempts, connections, lastEvent, expected,
          call, ret, hist>>

(***************************************************************************)
(* Result and Option values                                                *)
(***************************************************************************)
Ok(v) == <<"Ok", v>>
Err(e) == <<"Err", e>>
IsOk(r) == r[1] = "Ok"
None == <<"None">>
Some(v) == <<"Some", v>>

(***************************************************************************)
(* Alphabet and SingleLetterTag                                            *)
(***************************************************************************)
UpperChars ==
    <<"A", "B", "C", "D", "E", "F", "G", "H", "I", "J", "K", "L", "M",
      "N", "O", "P", "Q", "R", "S", "T", "U", "V", "W", "X", "Y", "Z">>
LowerChars ==
    <<"a", "b", "c", "d", "e", "f", "g", "h", "i", "j", "k", "l", "m",
      "n", "o", "p", "q", "r", "s", "t", "u", "v", "w", "x", "y", "z">>
Alphabet == {UpperChars[i] : i \in DOMAIN UpperChars}

SingleLetterTag == [character : Alphabet, uppercase : BOOLEAN]

lowercase(character) == [character |-> character, uppercase |-> FALSE]
uppercase(character) == [character |-> character, uppercase |-> TRUE]

(* match c { 'a' | 'A' => Alphabet::A, ..., _ => return Err(InvalidChar) };  *)
(* Ok(Self { character, uppercase: c.is_uppercase() })                       *)
from_char(c) ==
    IF \E i \in DOMAIN UpperChars : c = LowerChars[i] \/ c = UpperChars[i]
    THEN Ok([character |->
                UpperChars[CHOOSE i \in DOMAIN UpperChars :
                               c = LowerChars[i] \/ c = UpperChars[i]],
             uppercase |-> \E i \in DOMAIN UpperChars : c = UpperChars[i]])
    ELSE Err("InvalidChar")

(* An as_char that forgot the case of the tag *)
as_char_lowercase(tag) ==
    LowerChars[CHOOSE i \in DOMAIN UpperChars : UpperChars[i] = tag.character]

as_char(tag) ==
    IF tag.uppercase
    THEN tag.character
    ELSE LowerChars[CHOOSE i \in DOMAIN UpperChars : UpperChars[i] = tag.character]

is_lowercase(tag) == ~tag.uppercase

(* Display for SingleLetterTag: "#{}" with as_char; a string is modelled as  *)
(* the sequence of its characters.                                           *)
to_string(tag) == <<"#", as_char(tag)>>

(***************************************************************************)
(* 32-byte values, their hex form, event ids and public keys               *)
(***************************************************************************)
(* B0 is EventId::all_zeros(); B1 is the public key of the tests, B2 their *)
(* event id.  B1 and B2 are x coordinates of points of secp256k1, B0 is    *)
(* not (0^3 + 7 is no square modulo the field prime).                      *)
Bytes32 == {"B0", "B1"}
OnCurve == {"B1"}

to_hex(b) ==
    CASE b = "B0" -> "0000000000000000000000000000000000000000000000000000000000000000"
      [] b = "B1" -> "379e863e8357163b5bce5d2688dc4f1dcc2d505222fb8d74db600f30535dfdfe"
      [] b = "B2" -> "70b10f70c1318967eddf12527799411b1a9780ad9c43858f5e5fcd45486a13a5"

EventIds == Bytes32
PublicKeys == Bytes32 \cap OnCurve

(* EventId::from_hex: any 64 hex characters *)
EventId_from_hex(s) ==
    IF \E b \in EventIds : to_hex(b) = s
    THEN Ok(CHOOSE b \in EventIds : to_hex(b) = s)
    ELSE Err("hex")

(* XOnlyPublicKey::from_str: 64 hex characters that are the x coordinate of *)
(* a curve point                                                            *)
XOnlyPublicKey_from_str(s) ==
    IF \E b \in PublicKeys : to_hex(b) = s
    THEN Ok(CHOOSE b \in PublicKeys : to_hex(b) = s)
    ELSE Err("secp256k1")

TextStrings == {"test"}

Kinds == {0, 1}
Timestamps == {1}
Limits == {1}

(***************************************************************************)
(* GenericTagValue                                                         *)
(***************************************************************************)
Pubkey(k) == [variant |-> "Pubkey", inner |-> k]
EventIdValue(e) == [variant |-> "EventId", inner |-> e]
StringValue(s) == [variant |-> "String", inner |-> s]

(* IntoGenericTagValue for XOnlyPublicKey, EventId, String *)
into_generic_tag_value(kind, x) ==
    CASE kind = "Pubkey" -> Pubkey(x)
      [] kind = "EventId" -> EventIdValue(x)
      [] kind = "String" -> StringValue(x)

(* Display / derived Serialize of the untagged enum: the inner value's     *)
(* string form                                                             *)
GenericTagValue_to_string(v) ==
    IF v.variant = "String" THEN v.inner ELSE to_hex(v.inner)

(* Derived Deserialize of the untagged enum: the variants are tried in     *)
(* declaration order (Pubkey, EventId, String) and the first that parses   *)
(* wins; a JSON value that is no string matches none.                      *)
GenericTagValue_deserialize(j) ==
    IF j[1] # "str" THEN Err("untagged")
    ELSE IF IsOk(XOnlyPublicKey_from_str(j[2]))
         THEN Ok(Pubkey(XOnlyPublicKey_from_str(j[2])[2]))
    ELSE IF IsOk(EventId_from_hex(j[2]))
         THEN Ok(EventIdValue(EventId_from_hex(j[2])[2]))
    ELSE Ok(StringValue(j[2]))

(***************************************************************************)
(* Filter                                                                  *)
(***************************************************************************)
EmptyMap == [x \in {} |-> {}]

Filter_default ==
    [ids |-> {}, authors |-> {}, kinds |-> {}, search |-> None,
     since |-> None, until |-> None, limit |-> None,
     generic_tags |-> EmptyMap]

Filter_new == Filter_default

(* A remove_ids that cleared the field *)
remove_ids_clearing(f, es) == [f EXCEPT !.ids = {}]

(* A kinds that assigned the field instead of extending it *)
kinds_assigning(f, ks) == [f EXCEPT !.kinds = ks]

id(f, e) == [f EXCEPT !.ids = @ \cup {e}]
ids(f, es) == [f EXCEPT !.ids = @ \cup es]
remove_ids(f, es) == [f EXCEPT !.ids = @ \ es]
author(f, a) == [f EXCEPT !.authors = @ \cup {a}]
authors(f, as) == [f EXCEPT !.authors = @ \cup as]
remove_authors(f, as) == [f EXCEPT !.authors = @ \ as]
kind(f, k) == [f EXCEPT !.kinds = @ \cup {k}]
kinds(f, ks) == [f EXCEPT !.kinds = @ \cup ks]
remove_kinds(f, ks) == [f EXCEPT !.kinds = @ \ ks]
search(f, s) == [f EXCEPT !.search = Some(s)]
remove_search(f) == [f EXCEPT !.search = None]
since(f, t) == [f EXCEPT !.since = Some(t)]
remove_since(f) == [f EXCEPT !.since = None]
until(f, t) == [f EXCEPT !.until = Some(t)]
remove_until(f) == [f EXCEPT !.until = None]
limit(f, n) == [f EXCEPT !.limit = Some(n)]
remove_limit(f) == [f EXCEPT !.limit = None]

(* A custom_tag that inserted the values over the entry: insert(tag, values) *)
custom_tag_inserting(f, tag, values) ==
    [f EXCEPT !.generic_tags =
        IF tag \in DOMAIN @
        THEN [@ EXCEPT ![tag] = values]
        ELSE (tag :> values) @@ @]

(* entry(tag).and_modify(|list| list.extend(values)).or_insert(values) *)
custom_tag(f, tag, values) ==
    [f EXCEPT !.generic_tags =
        IF tag \in DOMAIN @
        THEN [@ EXCEPT ![tag] = @ \cup values]
        ELSE (tag :> values) @@ @]

(* A remove_custom_tag that removed the entry once it held nothing *)
remove_custom_tag_dropping(f, tag, values) ==
    [f EXCEPT !.generic_tags =
        IF tag \in DOMAIN @
        THEN IF @[tag] \ values = {}
             THEN [t \in DOMAIN @ \ {tag} |-> @[t]]
             ELSE [@ EXCEPT ![tag] = @ \ values]
        ELSE @]

(* entry(tag).and_modify(|list| list.retain(|v| !values.contains(v)));     *)
(* the entry is not inserted when absent                                   *)
remove_custom_tag(f, tag, values) ==
    [f EXCEPT !.generic_tags =
        IF tag \in DOMAIN @
        THEN [@ EXCEPT ![tag] = @ \ values]
        ELSE @]

event(f, e) == custom_tag(f, lowercase("E"), {EventIdValue(e)})
events(f, es) == custom_tag(f, lowercase("E"), {EventIdValue(e) : e \in es})
remove_events(f, es) ==
    remove_custom_tag(f, lowercase("E"), {EventIdValue(e) : e \in es})
pubkey(f, k) == custom_tag(f, lowercase("P"), {Pubkey(k)})
pubkeys(f, ks) == custom_tag(f, lowercase("P"), {Pubkey(k) : k \in ks})
remove_pubkeys(f, ks) ==
    remove_custom_tag(f, lowercase("P"), {Pubkey(k) : k \in ks})
hashtag(f, s) == custom_tag(f, lowercase("T"), {StringValue(s)})
hashtags(f, ss) == custom_tag(f, lowercase("T"), {StringValue(s) : s \in ss})
remove_hashtags(f, ss) ==
    remove_custom_tag(f, lowercase("T"), {StringValue(s) : s \in ss})
reference(f, s) == custom_tag(f, lowercase("R"), {StringValue(s)})
references(f, ss) == custom_tag(f, lowercase("R"), {StringValue(s) : s \in ss})
remove_references(f, ss) ==
    remove_custom_tag(f, lowercase("R"), {StringValue(s) : s \in ss})
identifier(f, s) == custom_tag(f, lowercase("D"), {StringValue(s)})
identifiers(f, ss) == custom_tag(f, lowercase("D"), {StringValue(s) : s \in ss})
remove_identifiers(f, ss) ==
    remove_custom_tag(f, lowercase("D"), {StringValue(s) : s \in ss})

is_empty(f) == f = Filter_default

(***************************************************************************)
(* JSON.  A JSON value is <<"null">>, <<"num", n>>, <<"str", s>> or        *)
(* <<"arr", elements>>; an array is held as the set of its elements, since *)
(* every array of a filter is read into or written from a set.  A JSON     *)
(* object is a function from keys to values; a key is the sequence of its  *)
(* characters.                                                             *)
(***************************************************************************)
JNull == <<"null">>
JNum(n) == <<"num", n>>
JStr(s) == <<"str", s>>
JArr(elems) == <<"arr", elems>>

KeyIds == <<"i", "d", "s">>
KeyAuthors == <<"a", "u", "t", "h", "o", "r", "s">>
KeyKinds == <<"k", "i", "n", "d", "s">>
KeySearch == <<"s", "e", "a", "r", "c", "h">>
KeySince == <<"s", "i", "n", "c", "e">>
KeyUntil == <<"u", "n", "t", "i", "l">>
KeyLimit == <<"l", "i", "m", "i", "t">>
FixedKeys ==
    {KeyIds, KeyAuthors, KeyKinds, KeySearch, KeySince, KeyUntil, KeyLimit}

Without(obj, k) == [x \in DOMAIN obj \ {k} |-> obj[x]]

(* serialize_generic_tags: one entry per key of the map, empty or not *)
serialize_generic_tags(generic_tags) ==
    [k \in {to_string(t) : t \in DOMAIN generic_tags} |->
        LET t == CHOOSE t \in DOMAIN generic_tags : to_string(t) = k
        IN JArr({JStr(GenericTagValue_to_string(v)) : v \in generic_tags[t]})]

(* Derived Serialize of Filter: skip_serializing_if on the seven fixed     *)
(* fields, generic_tags flattened into the same object                     *)
as_json(f) ==
    LET present ==
            {k \in FixedKeys :
                \/ k = KeyIds /\ f.ids # {}
                \/ k = KeyAuthors /\ f.authors # {}
                \/ k = KeyKinds /\ f.kinds # {}
                \/ k = KeySearch /\ f.search # None
                \/ k = KeySince /\ f.since # None
                \/ k = KeyUntil /\ f.until # None
                \/ k = KeyLimit /\ f.limit # None}
        fixed ==
            [k \in present |->
                CASE k = KeyIds -> JArr({JStr(to_hex(e)) : e \in f.ids})
                  [] k = KeyAuthors -> JArr({JStr(to_hex(a)) : a \in f.authors})
                  [] k = KeyKinds -> JArr({JNum(n) : n \in f.kinds})
                  [] k = KeySearch -> JStr(f.search[2])
                  [] k = KeySince -> JNum(f.since[2])
                  [] k = KeyUntil -> JNum(f.until[2])
                  [] k = KeyLimit -> JNum(f.limit[2])]
    IN fixed @@ serialize_generic_tags(f.generic_tags)

(* Deserializers of the fixed fields' types *)
deserialize_event_ids(j) ==
    IF j[1] # "arr" THEN Err("set")
    ELSE IF \E x \in j[2] : x[1] # "str" \/ ~IsOk(EventId_from_hex(x[2]))
         THEN Err("set")
    ELSE Ok({EventId_from_hex(x[2])[2] : x \in j[2]})

deserialize_pubkeys(j) ==
    IF j[1] # "arr" THEN Err("set")
    ELSE IF \E x \in j[2] : x[1] # "str" \/ ~IsOk(XOnlyPublicKey_from_str(x[2]))
         THEN Err("set")
    ELSE Ok({XOnlyPublicKey_from_str(x[2])[2] : x \in j[2]})

deserialize_kinds(j) ==
    IF j[1] # "arr" THEN Err("kinds")
    ELSE IF \E x \in j[2] : x[1] # "num" THEN Err("kinds")
    ELSE Ok({x[2] : x \in j[2]})

deserialize_opt_string(j) ==
    IF j[1] = "null" THEN Ok(None)
    ELSE IF j[1] = "str" THEN Ok(Some(j[2]))
    ELSE Err("string")

deserialize_opt_number(j) ==
    IF j[1] = "null" THEN Ok(None)
    ELSE IF j[1] = "num" THEN Ok(Some(j[2]))
    ELSE Err("number")

(* let mut values: AllocSet<GenericTagValue> = map.next_value()? *)
deserialize_values(j) ==
    IF j[1] # "arr" THEN Err("values")
    ELSE IF \E x \in j[2] : ~IsOk(GenericTagValue_deserialize(x)) THEN Err("values")
    ELSE Ok({GenericTagValue_deserialize(x)[2] : x \in j[2]})

(* the retain calls of visit_map *)
retain_typed(tag, values) ==
    IF is_lowercase(tag)
    THEN CASE tag.character = "P" -> {v \in values : v.variant = "Pubkey"}
           [] tag.character = "E" -> {v \in values : v.variant = "EventId"}
           [] OTHER -> values
    ELSE IF tag.character = "P"
         THEN {v \in values : v.variant = "Pubkey"}
         ELSE values

(* A key test that forgot the third chars.next(): any key of two or more    *)
(* characters that starts with '#'                                           *)
is_tag_key_any_length(key) == Len(key) >= 2 /\ key[1] = "#"

(* if let (Some('#'), Some(ch), None) = (chars.next(), chars.next(), chars.next()) *)
is_tag_key(key) == Len(key) = 2 /\ key[1] = "#"

(* A visit_map that skipped a key "#X" whose X is no letter, like any other  *)
(* unknown key, instead of failing on it                                     *)
visit_map_skipping_invalid(rest) ==
    LET tagKeys == {k \in DOMAIN rest : is_tag_key(k) /\ IsOk(from_char(k[2]))}
    IN IF \E k \in tagKeys : ~IsOk(deserialize_values(rest[k])) THEN Err("serde_json")
       ELSE Ok([t \in {from_char(k[2])[2] : k \in tagKeys} |->
                   LET k == CHOOSE k \in tagKeys : from_char(k[2])[2] = t
                   IN retain_typed(t, deserialize_values(rest[k])[2])])

(* GenericTagsVisitor::visit_map over the keys the fixed fields left: a key *)
(* of the shape "#X" must name a letter and carry a set of values (either   *)
(* failure ends the whole deserialization), any other key is skipped with   *)
(* its value.                                                               *)
visit_map(rest) ==
    LET tagKeys == {k \in DOMAIN rest : is_tag_key(k)}
    IN IF \E k \in tagKeys : ~IsOk(from_char(k[2])) THEN Err("serde_json")
       ELSE IF \E k \in tagKeys : ~IsOk(deserialize_values(rest[k])) THEN Err("serde_json")
       ELSE Ok([t \in {from_char(k[2])[2] : k \in tagKeys} |->
                   LET k == CHOOSE k \in tagKeys : from_char(k[2])[2] = t
                   IN retain_typed(t, deserialize_values(rest[k])[2])])

deserialize_generic_tags(rest) == visit_map(rest)

(* Derived Deserialize of Filter: #[serde(default)] on every field, the    *)
(* keys that name no fixed field are handed to deserialize_generic_tags    *)
from_json(obj) ==
    LET field(k, deser(_), dflt) == IF k \in DOMAIN obj THEN deser(obj[k]) ELSE Ok(dflt)
        r_ids == field(KeyIds, deserialize_event_ids, {})
        r_authors == field(KeyAuthors, deserialize_pubkeys, {})
        r_kinds == field(KeyKinds, deserialize_kinds, {})
        r_search == field(KeySearch, deserialize_opt_string, None)
        r_since == field(KeySince, deserialize_opt_number, None)
        r_until == field(KeyUntil, deserialize_opt_number, None)
        r_limit == field(KeyLimit, deserialize_opt_number, None)
        r_tags == deserialize_generic_tags([k \in DOMAIN obj \ FixedKeys |-> obj[k]])
    IN IF /\ IsOk(r_ids) /\ IsOk(r_authors) /\ IsOk(r_kinds) /\ IsOk(r_search)
          /\ IsOk(r_since) /\ IsOk(r_until) /\ IsOk(r_limit) /\ IsOk(r_tags)
       THEN Ok([ids |-> r_ids[2], authors |-> r_authors[2], kinds |-> r_kinds[2],
                search |-> r_search[2], since |-> r_since[2], until |-> r_until[2],
                limit |-> r_limit[2], generic_tags |-> r_tags[2]])
       ELSE Err("serde_json")


(***************************************************************************)
(* RelayOptions: every live-updatable field is an Arc of an atomic, so a   *)
(* RelayOptions value names, per field, a cell of the heap `cells`.        *)
(***************************************************************************)
DEFAULT_RETRY_SEC == 10
MIN_RETRY_SEC == 5
MAX_ADJ_RETRY_SEC == 60

Fields == {"reconnect", "retry_sec", "adjust_retry_sec"}

RetryInputs == {MIN_RETRY_SEC - 1, MIN_RETRY_SEC, MAX_ADJ_RETRY_SEC + 1}

FieldInputs(field) == IF field = "retry_sec" THEN RetryInputs ELSE BOOLEAN

(* impl Default for RelayOptions, its three cells allocated after ncells *)
RelayOptions_default(ncells) ==
    [proxy |-> None,
     flags |-> {"READ", "WRITE"},
     reconnect |-> ncells + 1,
     retry_sec |-> ncells + 2,
     adjust_retry_sec |-> ncells + 3]

(* Defaults with reconnect off *)
DefaultCells_no_reconnect == <<FALSE, DEFAULT_RETRY_SEC, TRUE>>

DefaultCells == <<TRUE, DEFAULT_RETRY_SEC, TRUE>>

(* A get_reconnect that answered the default instead of loading the cell *)
get_reconnect_default(h) == TRUE

get_reconnect(h) == cells[opts[h].reconnect]
get_retry_sec(h) == cells[opts[h].retry_sec]
get_adjust_retry_sec(h) == cells[opts[h].adjust_retry_sec]

get(h, field) ==
    CASE field = "reconnect" -> get_reconnect(h)
      [] field = "retry_sec" -> get_retry_sec(h)
      [] field = "adjust_retry_sec" -> get_adjust_retry_sec(h)

(* A retry_sec that clamped to the minimum instead of falling back *)
retry_sec_value_clamped(x) == IF x >= MIN_RETRY_SEC THEN x ELSE MIN_RETRY_SEC

(* retry_sec(self, x): let retry_sec = if x >= MIN_RETRY_SEC { x } else    *)
(* { DEFAULT_RETRY_SEC }                                                   *)
retry_sec_value(x) == IF x >= MIN_RETRY_SEC THEN x ELSE DEFAULT_RETRY_SEC

(* The value a builder stores in the fresh cell of the field *)
builder_value(field, x) == IF field = "retry_sec" THEN retry_sec_value(x) ELSE x

(* An update_retry_sec without its guard *)
update_accepts_any(field, x) == TRUE

(* update_retry_sec stores only if retry_sec >= MIN_RETRY_SEC;             *)
(* update_reconnect and update_adjust_retry_sec always store               *)
update_accepts(field, x) == field = "retry_sec" => x >= MIN_RETRY_SEC

(* What the claims call an accepted update, stated apart from the code *)
Accepted(field, x) == field # "retry_sec" \/ x >= 5

Idle == [pc |-> "idle", h |-> 0, field |-> "", cell |-> 0, val |-> 0, prev |-> 0]

InFlight(c) == {t \in Threads : thr[t].pc # "idle" /\ thr[t].cell = c}

InitOptions ==
    /\ opts = <<RelayOptions_default(0)>>
    /\ cells = DefaultCells
    /\ thr = [t \in Threads |-> Idle]
    /\ ncalls = 0
    /\ lastRead = None
    /\ allowed = [c \in 1..3 |-> {DefaultCells[c]}]
    /\ settled = [c \in 1..3 |-> {DefaultCells[c]}]
    /\ shared = {}

(* RelayOptions::new() *)
New ==
    /\ ncalls < MaxCalls
    /\ Len(opts) < MaxHandles
    /\ opts' = Append(opts, RelayOptions_default(Len(cells)))
    /\ cells' = cells \o DefaultCells
    /\ allowed' = allowed \o [c \in 1..3 |-> {DefaultCells[c]}]
    /\ settled' = settled \o [c \in 1..3 |-> {DefaultCells[c]}]
    /\ ncalls' = ncalls + 1
    /\ UNCHANGED <<thr, lastRead, shared>>
    /\ UNCHANGED filterVars
    /\ UNCHANGED relayVars
    /\ UNCHANGED callVars

(* #[derive(Clone)]: the clone holds the same Arcs *)
Clone ==
    /\ ncalls < MaxCalls
    /\ Len(opts) < MaxHandles
    /\ \E h \in DOMAIN opts :
           /\ opts' = Append(opts, opts[h])
           /\ shared' = shared \cup
                  {<<f, a, b>> : f \in Fields,
                                 a \in {h, Len(opts) + 1}, b \in {h, Len(opts) + 1}}
                  \cup {<<x[1], x[2], Len(opts) + 1>> : x \in {y \in shared : y[3] = h}}
                  \cup {<<x[1], Len(opts) + 1, x[3]>> : x \in {y \in shared : y[2] = h}}
    /\ ncalls' = ncalls + 1
    /\ UNCHANGED <<cells, thr, lastRead, allowed, settled>>
    /\ UNCHANGED filterVars
    /\ UNCHANGED relayVars
    /\ UNCHANGED callVars

(* Builders that stored into the Arc the receiver held instead of making   *)
(* a new one                                                               *)
Builder_in_place ==
    /\ ncalls < MaxCalls
    /\ \E h \in DOMAIN opts, field \in Fields :
         \E x \in FieldInputs(field) :
           /\ \A t \in Threads : thr[t].pc # "idle" => thr[t].h # h
           /\ cells' = [cells EXCEPT ![opts[h][field]] = builder_value(field, x)]
           /\ allowed' = [allowed EXCEPT ![opts[h][field]] = @ \cup {builder_value(field, x)}]
           /\ settled' = [settled EXCEPT ![opts[h][field]] = {builder_value(field, x)}]
           /\ shared' = {y \in shared : ~(y[1] = field /\ (y[2] = h \/ y[3] = h))}
                            \cup {<<field, h, h>>}
    /\ ncalls' = ncalls + 1
    /\ UNCHANGED <<opts, thr, lastRead>>
    /\ UNCHANGED filterVars
    /\ UNCHANGED relayVars
    /\ UNCHANGED callVars

(* The by-value builders reconnect(v), retry_sec(x), adjust_retry_sec(v):  *)
(* Self { field: Arc::new(Atomic::new(value)), ..self }.  The receiver is  *)
(* moved, so no thread is inside a call on it.                             *)
Builder ==
    /\ ncalls < MaxCalls
    /\ \E h \in DOMAIN opts, field \in Fields :
         \E x \in FieldInputs(field) :
           /\ \A t \in Threads : thr[t].pc # "idle" => thr[t].h # h
           /\ opts' = [opts EXCEPT ![h][field] = Len(cells) + 1]
           /\ cells' = Append(cells, builder_value(field, x))
           /\ allowed' = Append(allowed, {builder_value(field, x)})
           /\ settled' = Append(settled, {builder_value(field, x)})
           /\ shared' = {y \in shared : ~(y[1] = field /\ (y[2] = h \/ y[3] = h))}
                            \cup {<<field, h, h>>}
    /\ ncalls' = ncalls + 1
    /\ UNCHANGED <<thr, lastRead>>
    /\ UNCHANGED filterVars
    /\ UNCHANGED relayVars
    /\ UNCHANGED callVars

(* update_reconnect / update_retry_sec / update_adjust_retry_sec, called   *)
(* by thread t: the guard, then fetch_update's first load                  *)
UpdateCall(t) ==
    /\ ncalls < MaxCalls
    /\ thr[t].pc = "idle"
    /\ \E h \in DOMAIN opts, field \in Fields :
         \E x \in FieldInputs(field) :
           LET c == opts[h][field] IN
           /\ IF update_accepts(field, x)
              THEN thr' = [thr EXCEPT ![t] = [pc |-> "cas", h |-> h, field |-> field,
                                              cell |-> c, val |-> x, prev |-> cells[c]]]
              ELSE UNCHANGED thr
           /\ IF Accepted(field, x)
              THEN /\ allowed' = [allowed EXCEPT ![c] = @ \cup {x}]
                   /\ settled' = [settled EXCEPT ![c] = {}]
              ELSE UNCHANGED <<allowed, settled>>
    /\ ncalls' = ncalls + 1
    /\ UNCHANGED <<opts, cells, lastRead, shared>>
    /\ UNCHANGED filterVars
    /\ UNCHANGED relayVars
    /\ UNCHANGED callVars

(* fetch_update's compare_exchange_weak(prev, next): it stores if the cell *)
(* still holds prev, and may fail spuriously; on failure prev is reloaded  *)
(* and the loop goes round                                                 *)
UpdateCas(t) ==
    /\ thr[t].pc = "cas"
    /\ \/ /\ cells[thr[t].cell] = thr[t].prev
          /\ cells' = [cells EXCEPT ![thr[t].cell] = thr[t].val]
          /\ thr' = [thr EXCEPT ![t].pc = "ret"]
       \/ /\ cells[thr[t].cell] # thr[t].prev
          /\ thr' = [thr EXCEPT ![t].prev = cells[thr[t].cell]]
          /\ UNCHANGED cells
    /\ UNCHANGED <<opts, ncalls, lastRead, allowed, settled, shared>>
    /\ UNCHANGED filterVars
    /\ UNCHANGED relayVars
    /\ UNCHANGED callVars

(* The update_* call returns *)
UpdateReturn(t) ==
    /\ thr[t].pc = "ret"
    /\ settled' = [settled EXCEPT ![thr[t].cell] = @ \cup {thr[t].val}]
    /\ thr' = [thr EXCEPT ![t] = Idle]
    /\ UNCHANGED <<opts, cells, ncalls, lastRead, allowed, shared>>
    /\ UNCHANGED filterVars
    /\ UNCHANGED relayVars
    /\ UNCHANGED callVars

(* get_reconnect / get_retry_sec / get_adjust_retry_sec: one atomic load *)
Get ==
    /\ \E h \in DOMAIN opts, field \in Fields :
           lastRead' = Some([field |-> field, value |-> get(h, field),
                             valid |-> get(h, field) \in allowed[opts[h][field]]])
    /\ UNCHANGED <<opts, cells, thr, ncalls, allowed, settled, shared>>
    /\ UNCHANGED filterVars
    /\ UNCHANGED relayVars
    /\ UNCHANGED callVars

NextOptions ==
    \/ New \/ Clone \/ Builder
    \/ \E t \in Threads : UpdateCall(t) \/ UpdateCas(t) \/ UpdateReturn(t)
    \/ Get

(***************************************************************************)
(* The relay connection: its status, its subscription table and the retry  *)
(* loop, driven by the options of handle RelayHandle.                      *)
(***************************************************************************)
RelayHandle == 1
SubIds == {"s1", "s2"}
FilterLists == {<<Filter_default>>, <<kind(Filter_default, 1)>>}

Min(a, b) == IF a <= b THEN a ELSE b

(* The delay before the next connection attempt *)
retry_delay(h, n) ==
    IF get_adjust_retry_sec(h)
    THEN Min(get_retry_sec(h) * n, MAX_ADJ_RETRY_SEC)
    ELSE get_retry_sec(h)

InitRelay ==
    /\ status = "Initialized"
    /\ subs = EmptyMap
    /\ sent = {}
    /\ attempts = 0
    /\ connections = 0
    /\ lastEvent = "new"
    /\ expected = EmptyMap

(* connect() *)
Connect ==
    /\ status = "Initialized"
    /\ status' = "Connecting"
    /\ attempts' = Min(attempts + 1, MaxAttempts)
    /\ lastEvent' = "connect"
    /\ UNCHANGED <<subs, sent, connections, expected>>
    /\ UNCHANGED <<filterVars, optionsVars>>
    /\ UNCHANGED callVars

(* The socket opens: every subscription of the table is sent again *)
SocketOpen ==
    /\ status = "Connecting"
    /\ status' = "Connected"
    /\ sent' = DOMAIN subs
    /\ attempts' = 0
    /\ connections' = Min(connections + 1, 2)
    /\ lastEvent' = "open"
    /\ UNCHANGED <<subs, expected>>
    /\ UNCHANGED <<filterVars, optionsVars>>
    /\ UNCHANGED callVars

(* Socket error or failed handshake *)
SocketFail ==
    /\ status = "Connecting"
    /\ status' = "Disconnected"
    /\ lastEvent' = "fail"
    /\ UNCHANGED <<subs, sent, attempts, connections, expected>>
    /\ UNCHANGED <<filterVars, optionsVars>>
    /\ UNCHANGED callVars

(* A connection loss that cleared the subscription table *)
PeerClose_clearing_table ==
    /\ status = "Connected"
    /\ status' = "Disconnected"
    /\ sent' = {}
    /\ subs' = EmptyMap
    /\ lastEvent' = "close"
    /\ UNCHANGED <<attempts, connections, expected>>
    /\ UNCHANGED <<filterVars, optionsVars>>
    /\ UNCHANGED callVars

(* Peer close, read error or ping timeout *)
PeerClose ==
    /\ status = "Connected"
    /\ status' = "Disconnected"
    /\ sent' = {}
    /\ lastEvent' = "close"
    /\ UNCHANGED <<subs, attempts, connections, expected>>
    /\ UNCHANGED <<filterVars, optionsVars>>
    /\ UNCHANGED callVars

(* The retry loop: after the retry delay, a new attempt if reconnect is set *)
AutoRetry ==
    /\ status = "Disconnected"
    /\ get_reconnect(RelayHandle)
    /\ status' = "Connecting"
    /\ attempts' = Min(attempts + 1, MaxAttempts)
    /\ lastEvent' = "auto_retry"
    /\ UNCHANGED <<subs, sent, connections, expected>>
    /\ UNCHANGED <<filterVars, optionsVars>>
    /\ UNCHANGED callVars

(* disconnect() *)
Disconnect ==
    /\ status \notin {"Stopped", "Terminated"}
    /\ status' = "Stopped"
    /\ sent' = {}
    /\ lastEvent' = "disconnect"
    /\ UNCHANGED <<subs, attempts, connections, expected>>
    /\ UNCHANGED <<filterVars, optionsVars>>
    /\ UNCHANGED callVars

(* terminate() *)
Terminate ==
    /\ status # "Terminated"
    /\ status' = "Terminated"
    /\ sent' = {}
    /\ lastEvent' = "terminate"
    /\ UNCHANGED <<subs, attempts, connections, expected>>
    /\ UNCHANGED <<filterVars, optionsVars>>
    /\ UNCHANGED callVars

(* subscribe(id, filters): the table entry, and the REQ if connected *)
Subscribe ==
    /\ status # "Terminated"
    /\ \E s \in SubIds, F \in FilterLists :
           /\ subs' = (s :> F) @@ subs
           /\ expected' = (s :> F) @@ expected
           /\ sent' = IF status = "Connected" THEN sent \cup {s} ELSE sent
    /\ lastEvent' = "subscribe"
    /\ UNCHANGED <<status, attempts, connections>>
    /\ UNCHANGED <<filterVars, optionsVars>>
    /\ UNCHANGED callVars

(* unsubscribe(id): the entry is removed, and CLOSE sent if connected *)
Unsubscribe ==
    /\ status # "Terminated"
    /\ \E s \in DOMAIN subs :
           /\ subs' = [x \in DOMAIN subs \ {s} |-> subs[x]]
           /\ expected' = [x \in DOMAIN expected \ {s} |-> expected[x]]
           /\ sent' = sent \ {s}
    /\ lastEvent' = "unsubscribe"
    /\ UNCHANGED <<status, attempts, connections>>
    /\ UNCHANGED <<filterVars, optionsVars>>
    /\ UNCHANGED callVars

(* update_reconnect(v) on the relay's options, run to its return *)
UpdateReconnect ==
    /\ \E v \in BOOLEAN :
           LET c == opts[RelayHandle].reconnect IN
           /\ cells' = [cells EXCEPT ![c] = v]
           /\ allowed' = [allowed EXCEPT ![c] = @ \cup {v}]
           /\ settled' = [settled EXCEPT ![c] = {v}]
    /\ lastEvent' = "update_reconnect"
    /\ UNCHANGED <<status, subs, sent, attempts, connections, expected>>
    /\ UNCHANGED <<opts, thr, ncalls, lastRead, shared>>
    /\ UNCHANGED filterVars
    /\ UNCHANGED callVars

NextRelay ==
    \/ Connect \/ SocketOpen \/ SocketFail \/ PeerClose \/ AutoRetry
    \/ Disconnect \/ Terminate
    \/ Subscribe \/ Unsubscribe
    \/ UpdateReconnect

(***************************************************************************)
(* The filter component: a filter is built by at most MaxOps builder       *)
(* calls and serialized, or a JSON object of at most MaxJsonKeys keys is   *)
(* received; either JSON object is then parsed.                            *)
(***************************************************************************)
EmptyObject == [x \in {} |-> JNull]

BuilderTags == {lowercase("E"), lowercase("P"), uppercase("P"), lowercase("A")}

ValueKinds == {"Pubkey", "EventId", "String"}

InnerValues(vk) ==
    CASE vk = "Pubkey" -> PublicKeys
      [] vk = "EventId" -> EventIds
      [] vk = "String" -> {"test", to_hex("B1")}

InputKeys ==
    FixedKeys \cup
    {<<"#", "e">>, <<"#", "p">>, <<"#", "P">>, <<"#", "a">>, <<"#", "1">>,
     <<"#">>, <<"a", "a">>, <<"#", "a", "b">>}

InputValues ==
    {JNull, JNum(1), JStr("test"), JArr({}), JArr({JNum(1)}),
     JArr({JStr("test")}), JArr({JStr(to_hex("B0"))}), JArr({JStr(to_hex("B1"))}),
     JArr({JStr(to_hex("B0")), JStr(to_hex("B1")), JStr("test")})}

InitFilter ==
    /\ filter = Filter_new
    /\ nops = 0
    /\ json = EmptyObject
    /\ parsed = None
    /\ fpc = "build"

Build(f) ==
    /\ fpc = "build"
    /\ nops < MaxOps
    /\ filter' = f
    /\ nops' = nops + 1
    /\ UNCHANGED <<json, parsed, fpc>>
    /\ UNCHANGED optionsVars
    /\ UNCHANGED relayVars
    /\ UNCHANGED callVars

(* One call of a builder or remove_* method of Filter *)
BuilderCall ==
    \/ \E e \in EventIds : Build(id(filter, e))
    \/ \E es \in SUBSET EventIds : Build(ids(filter, es))
    \/ \E es \in SUBSET EventIds : Build(remove_ids(filter, es))
    \/ \E a \in PublicKeys : Build(author(filter, a))
    \/ \E as \in SUBSET PublicKeys : Build(authors(filter, as))
    \/ \E as \in SUBSET PublicKeys : Build(remove_authors(filter, as))
    \/ \E k \in Kinds : Build(kind(filter, k))
    \/ \E ks \in SUBSET Kinds : Build(kinds(filter, ks))
    \/ \E ks \in SUBSET Kinds : Build(remove_kinds(filter, ks))
    \/ \E s \in TextStrings : Build(search(filter, s))
    \/ Build(remove_search(filter))
    \/ \E t \in Timestamps : Build(since(filter, t))
    \/ Build(remove_since(filter))
    \/ \E t \in Timestamps : Build(until(filter, t))
    \/ Build(remove_until(filter))
    \/ \E n \in Limits : Build(limit(filter, n))
    \/ Build(remove_limit(filter))
    \/ \E tag \in BuilderTags, vk \in ValueKinds :
           \E xs \in SUBSET InnerValues(vk) :
               Build(custom_tag(filter, tag,
                     {into_generic_tag_value(vk, x) : x \in xs}))
    \/ \E tag \in BuilderTags, vk \in ValueKinds :
           \E xs \in SUBSET InnerValues(vk) :
               Build(remove_custom_tag(filter, tag,
                     {into_generic_tag_value(vk, x) : x \in xs}))
    \/ \E e \in EventIds : Build(event(filter, e))
    \/ \E es \in SUBSET EventIds : Build(events(filter, es))
    \/ \E es \in SUBSET EventIds : Build(remove_events(filter, es))
    \/ \E k \in PublicKeys : Build(pubkey(filter, k))
    \/ \E ks \in SUBSET PublicKeys : Build(pubkeys(filter, ks))
    \/ \E ks \in SUBSET PublicKeys : Build(remove_pubkeys(filter, ks))
    \/ \E s \in TextStrings : Build(hashtag(filter, s))
    \/ \E ss \in SUBSET TextStrings : Build(hashtags(filter, ss))
    \/ \E ss \in SUBSET TextStrings : Build(remove_hashtags(filter, ss))
    \/ \E s \in TextStrings : Build(reference(filter, s))
    \/ \E ss \in SUBSET TextStrings : Build(references(filter, ss))
    \/ \E ss \in SUBSET TextStrings : Build(remove_references(filter, ss))
    \/ \E s \in TextStrings : Build(identifier(filter, s))
    \/ \E ss \in SUBSET TextStrings : Build(identifiers(filter, ss))
    \/ \E ss \in SUBSET TextStrings : Build(remove_identifiers(filter, ss))

(* JsonUtil::as_json of the filter built so far *)
AsJson ==
    /\ fpc = "build"
    /\ json' = as_json(filter)
    /\ fpc' = "serialized"
    /\ UNCHANGED <<filter, nops, parsed>>
    /\ UNCHANGED optionsVars
    /\ UNCHANGED relayVars
    /\ UNCHANGED callVars

(* A JSON object arrives from outside, one key at a time *)
PutJsonKey ==
    /\ (fpc = "build" /\ nops = 0) \/ fpc = "input"
    /\ Cardinality(DOMAIN json) < MaxJsonKeys
    /\ \E k \in InputKeys \ DOMAIN json, v \in InputValues :
           json' = (k :> v) @@ json
    /\ fpc' = "input"
    /\ UNCHANGED <<filter, nops, parsed>>
    /\ UNCHANGED optionsVars
    /\ UNCHANGED relayVars
    /\ UNCHANGED callVars

(* JsonUtil::from_json of the JSON object at hand *)
FromJson ==
    /\ fpc \in {"serialized", "input"}
    /\ parsed' = from_json(json)
    /\ fpc' = IF fpc = "serialized" THEN "roundtrip" ELSE "decoded"
    /\ UNCHANGED <<filter, nops, json>>
    /\ UNCHANGED optionsVars
    /\ UNCHANGED relayVars
    /\ UNCHANGED callVars

NextFilter == BuilderCall \/ AsJson \/ PutJsonKey \/ FromJson

(***************************************************************************)
(* Coordinate (nip01.rs).  A text is the sequence of its tokens: a token   *)
(* is one character (a digit, a letter or ':'), or the 64 hex characters   *)
(* of a 32-byte value taken as one token.                                  *)
(***************************************************************************)
Range(seq) == {seq[i] : i \in DOMAIN seq}

Digits == <<"0", "1", "2", "3", "4", "5", "6", "7", "8", "9">>

(* s.split(':'): the pieces between the colons, empty pieces included *)
split(s) ==
    LET colons == {i \in DOMAIN s : s[i] = ":"}
        nth(n) == CHOOSE i \in colons : Cardinality({j \in colons : j < i}) = n - 1
        pieces == Cardinality(colons) + 1
    IN [n \in 1..pieces |->
           SubSeq(s, IF n = 1 THEN 1 ELSE nth(n - 1) + 1,
                     IF n = pieces THEN Len(s) ELSE nth(n) - 1)]

(* Kind::from_str: the text parsed as an unsigned decimal number (texts of *)
(* more digits than a u64 holds are not among the inputs here)             *)
Kind_from_str(kind_str) ==
    LET digit(d) == (CHOOSE i \in DOMAIN Digits : Digits[i] = d) - 1
        RECURSIVE value(_)
        value(n) == IF n = 0 THEN 0 ELSE value(n - 1) * 10 + digit(kind_str[n])
    IN IF kind_str # <<>> /\ \A i \in DOMAIN kind_str : kind_str[i] \in Range(Digits)
       THEN Ok(value(Len(kind_str)))
       ELSE Err("ParseInt")

(* A from_str that parsed the public key before the kind *)
Coordinate_from_str_pubkey_first(s) ==
    LET kpi == split(s)
        kind_r == Kind_from_str(kpi[1])
        pubkey_r == IF Len(kpi[2]) = 1
                    THEN XOnlyPublicKey_from_str(kpi[2][1])
                    ELSE Err("secp256k1")
    IN IF Len(kpi) >= 3
       THEN IF ~IsOk(pubkey_r) THEN Err("Secp256k1")
            ELSE IF ~IsOk(kind_r) THEN Err("ParseInt")
            ELSE Ok([kind |-> kind_r[2], pubkey |-> pubkey_r[2],
                     identifier |-> kpi[3], relays |-> <<>>])
       ELSE Err("InvalidCoordinate")

(* impl FromStr for Coordinate: the first three pieces of s.split(':');    *)
(* the fields are evaluated in the order written, kind before pubkey       *)
Coordinate_from_str(s) ==
    LET kpi == split(s)
        kind_r == Kind_from_str(kpi[1])
        pubkey_r == IF Len(kpi[2]) = 1
                    THEN XOnlyPublicKey_from_str(kpi[2][1])
                    ELSE Err("secp256k1")
    IN IF Len(kpi) >= 3
       THEN IF ~IsOk(kind_r) THEN Err("ParseInt")
            ELSE IF ~IsOk(pubkey_r) THEN Err("Secp256k1")
            ELSE Ok([kind |-> kind_r[2], pubkey |-> pubkey_r[2],
                     identifier |-> kpi[3], relays |-> <<>>])
       ELSE Err("InvalidCoordinate")

(* A conversion without the is_empty test *)
Filter_from_Coordinate_unconditional(value) ==
    identifier(author(kind(Filter_new, value.kind), value.pubkey),
               value.identifier)

(* impl From<Coordinate> for Filter *)
Filter_from_Coordinate(value) ==
    IF value.identifier = <<>>
    THEN author(kind(Filter_new, value.kind), value.pubkey)
    ELSE identifier(author(kind(Filter_new, value.kind), value.pubkey),
                    value.identifier)

(***************************************************************************)
(* SubscriptionId: a string, held as the sequence of its characters        *)
(***************************************************************************)
(* Sha256Hash::hash(&os_random).to_string() of 32 bytes 0x00 and of 32     *)
(* bytes 0xff: 64 lowercase hex characters                                 *)
Sha256Hash_to_string(os_random) ==
    CASE os_random = "00" ->
           <<"6", "6", "6", "8", "7", "a", "a", "d", "f", "8", "6", "2", "b", "d", "7", "7",
           "6", "c", "8", "f", "c", "1", "8", "b", "8", "e", "9", "f", "8", "e", "2", "0",
           "0", "8", "9", "7", "1", "4", "8", "5", "6", "e", "e", "2", "3", "3", "b", "3",
           "9", "0", "2", "a", "5", "9", "1", "d", "0", "d", "5", "f", "2", "9", "2", "5">>
      [] os_random = "ff" ->
           <<"a", "f", "9", "6", "1", "3", "7", "6", "0", "f", "7", "2", "6", "3", "5", "f",
           "b", "d", "b", "4", "4", "a", "5", "a", "0", "a", "6", "3", "c", "3", "9", "f",
           "1", "2", "a", "f", "3", "0", "f", "9", "5", "0", "a", "6", "e", "e", "5", "c",
           "9", "7", "1", "b", "e", "1", "8", "8", "e", "8", "9", "c", "4", "0", "5", "1">>

(* pub fn new(id): Self(id.into()) *)
SubscriptionId_new(s) == s

(* Self::new(&hash[..32]) *)
generate_with_rng(os_random) ==
    SubscriptionId_new(SubSeq(Sha256Hash_to_string(os_random), 1, 32))

(* impl Deserialize for SubscriptionId: String::deserialize, then new *)
SubscriptionId_deserialize(j) ==
    IF j[1] = "str" THEN Ok(SubscriptionId_new(j[2])) ELSE Err("serde_json")

(***************************************************************************)
(* The defaults of the other option records; a Duration is in seconds      *)
(***************************************************************************)
DEFAULT_SEND_TIMEOUT == 10

RelaySendOptions_default ==
    [skip_disconnected |-> TRUE, timeout |-> DEFAULT_SEND_TIMEOUT]

(* skip_disconnected(self, value): Self { skip_disconnected: value, ..self } *)
skip_disconnected(self, value) == [self EXCEPT !.skip_disconnected = value]

(* A timeout that kept the timeout it had when given None *)
timeout_keeping(self, value) ==
    IF value = None THEN self ELSE [self EXCEPT !.timeout = value[2]]

(* timeout(self, value): Self { timeout:                                   *)
(* value.unwrap_or(DEFAULT_SEND_TIMEOUT), ..self }; a Duration is held in  *)
(* seconds                                                                 *)
timeout(self, value) ==
    [self EXCEPT !.timeout = IF value = None THEN DEFAULT_SEND_TIMEOUT ELSE value[2]]

FilterOptions_default == <<"ExitOnEOSE">>

RelayPoolOptions_default ==
    [notification_channel_size |-> 4096, task_channel_size |-> 4096,
     shutdown_on_drop |-> FALSE]

(* A do_up that forgot the bidirectional sync *)
do_up_only(self) == self = "Up"

(* matches!(self, Self::Up | Self::Both) *)
do_up(self) == self \in {"Up", "Both"}

(* matches!(self, Self::Down | Self::Both) *)
do_down(self) == self \in {"Down", "Both"}

NegentropyOptions_default == [initial_timeout |-> 10, direction |-> "Down"]

(***************************************************************************)
(* Sequential calls: a chain of builder calls on one Filter, starting at   *)
(* Filter::new(), each call having the value the last one returned as its  *)
(* receiver.                                                               *)
(***************************************************************************)
(* The tags that have a convenience adder: e, p, d, t, r *)
ChainTags == {lowercase(c) : c \in {"E", "P", "D", "T", "R"}}

InitCall ==
    /\ call = <<"Filter", "new">>
    /\ ret = <<"Filter", "new", Filter_new>>
    /\ hist = [n |-> 0, kinds |-> {}, ids |-> {},
               tags |-> [t \in ChainTags |-> {}], touched |-> {}]

(* A call on the filter `ret[3]`, returning f; h is the history after it *)
Chain(c, f, h) ==
    /\ call[1] = "Filter"
    /\ hist.n < MaxOps
    /\ call' = c
    /\ ret' = <<c[1], c[2], f>>
    /\ hist' = [h EXCEPT !.n = @ + 1]
    /\ UNCHANGED filterVars
    /\ UNCHANGED optionsVars
    /\ UNCHANGED relayVars

(* kind / kinds; id / ids / remove_ids; the adders and removers of the     *)
(* generic tags.  An argument that is an iterator is given as a list where *)
(* a property is about repeated elements, as a set otherwise.              *)
FilterChain ==
    LET Added(t, vs) == [hist EXCEPT !.tags[t] = @ \cup vs, !.touched = @ \cup {t}]
        Removed(t, vs) == [hist EXCEPT !.tags[t] = @ \ vs]
        E == lowercase("E")
        P == lowercase("P")
        Ev(es) == {EventIdValue(e) : e \in es}
        Pk(ks) == {Pubkey(k) : k \in ks}
        St(ss) == {StringValue(x) : x \in ss}
        TagValues(t) ==
            CASE t = E -> Ev(EventIds)
              [] t = P -> Pk(PublicKeys)
              [] OTHER -> St(InnerValues("String"))
        KindLists == UNION {[1..m -> Kinds] : m \in 0..2}
    IN
    \/ \E k \in Kinds :
           Chain(<<"Filter", "kind">>, kind(ret[3], k),
                 [hist EXCEPT !.kinds = @ \cup {k}])
    \/ \E ks \in KindLists :
           Chain(<<"Filter", "kinds">>, kinds(ret[3], Range(ks)),
                 [hist EXCEPT !.kinds = @ \cup Range(ks)])
    \/ \E e \in EventIds :
           Chain(<<"Filter", "id">>, id(ret[3], e), [hist EXCEPT !.ids = @ \cup {e}])
    \/ \E es \in SUBSET EventIds :
           Chain(<<"Filter", "ids">>, ids(ret[3], es), [hist EXCEPT !.ids = @ \cup es])
    \/ \E es \in SUBSET EventIds :
           Chain(<<"Filter", "remove_ids", es>>, remove_ids(ret[3], es),
                 [hist EXCEPT !.ids = @ \ es])
    \/ \E t \in ChainTags : \E vs \in SUBSET TagValues(t) :
           Chain(<<"Filter", "custom_tag", t, vs>>, custom_tag(ret[3], t, vs),
                 Added(t, vs))
    \/ \E t \in ChainTags : \E vs \in SUBSET TagValues(t) :
           Chain(<<"Filter", "remove_custom_tag", t, vs>>,
                 remove_custom_tag(ret[3], t, vs), Removed(t, vs))
    \/ \E e \in EventIds :
           Chain(<<"Filter", "event">>, event(ret[3], e), Added(E, Ev({e})))
    \/ \E es \in SUBSET EventIds :
           Chain(<<"Filter", "events">>, events(ret[3], es), Added(E, Ev(es)))
    \/ \E es \in SUBSET EventIds :
           Chain(<<"Filter", "remove_events">>, remove_events(ret[3], es),
                 Removed(E, Ev(es)))
    \/ \E k \in PublicKeys :
           Chain(<<"Filter", "pubkey">>, pubkey(ret[3], k), Added(P, Pk({k})))
    \/ \E ks \in SUBSET PublicKeys :
           Chain(<<"Filter", "pubkeys">>, pubkeys(ret[3], ks), Added(P, Pk(ks)))
    \/ \E ks \in SUBSET PublicKeys :
           Chain(<<"Filter", "remove_pubkeys">>, remove_pubkeys(ret[3], ks),
                 Removed(P, Pk(ks)))
    \/ \E x \in TextStrings :
           Chain(<<"Filter", "hashtag">>, hashtag(ret[3], x),
                 Added(lowercase("T"), St({x})))
    \/ \E ss \in SUBSET TextStrings :
           Chain(<<"Filter", "hashtags">>, hashtags(ret[3], ss),
                 Added(lowercase("T"), St(ss)))
    \/ \E ss \in SUBSET TextStrings :
           Chain(<<"Filter", "remove_hashtags">>, remove_hashtags(ret[3], ss),
                 Removed(lowercase("T"), St(ss)))
    \/ \E x \in TextStrings :
           Chain(<<"Filter", "reference">>, reference(ret[3], x),
                 Added(lowercase("R"), St({x})))
    \/ \E ss \in SUBSET TextStrings :
           Chain(<<"Filter", "references">>, references(ret[3], ss),
                 Added(lowercase("R"), St(ss)))
    \/ \E ss \in SUBSET TextStrings :
           Chain(<<"Filter", "remove_references">>, remove_references(ret[3], ss),
                 Removed(lowercase("R"), St(ss)))
    \/ \E x \in TextStrings :
           Chain(<<"Filter", "identifier">>, identifier(ret[3], x),
                 Added(lowercase("D"), St({x})))
    \/ \E ss \in SUBSET TextStrings :
           Chain(<<"Filter", "identifiers">>, identifiers(ret[3], ss),
                 Added(lowercase("D"), St(ss)))
    \/ \E ss \in SUBSET TextStrings :
           Chain(<<"Filter", "remove_identifiers">>, remove_identifiers(ret[3], ss),
                 Removed(lowercase("D"), St(ss)))

(* A call made once, on arguments drawn from small sets *)
Apply(c, r) ==
    /\ call = <<"Filter", "new">>
    /\ call' = c
    /\ ret' = <<c[1], c[2], r>>
    /\ UNCHANGED hist
    /\ UNCHANGED filterVars
    /\ UNCHANGED optionsVars
    /\ UNCHANGED relayVars

(* Coordinate::from_str of any text of up to MaxText pieces (a piece is a   *)
(* character or the 64 hex characters of a key) and of the text            *)
(* "kind:pubkey_hex:identifier", and Filter::from of a Coordinate          *)
CoordinateCall ==
    /\ call = <<"Filter", "new">>
    /\ LET CoordKinds == {1, 30023}
           Identifiers == UNION {[1..m -> {"a", ":"}] : m \in 0..2}
           RelayLists == {<<>>, <<"wss://relay.example">>}
           RECURSIVE decimal(_)
           decimal(n) == IF n < 10 THEN <<Digits[n + 1]>>
                         ELSE Append(decimal(n \div 10), Digits[(n % 10) + 1])
           text(k, p, i) == decimal(k) \o <<":", to_hex(p), ":">> \o i
           Tokens == {"1", "x", ":"} \cup {to_hex(b) : b \in Bytes32}
           Texts == UNION {[1..m -> Tokens] : m \in 0..MaxText}
       IN
       \/ \E s \in Texts :
              Apply(<<"Coordinate", "from_str_text", s>>, Coordinate_from_str(s))
       \/ \E k \in CoordKinds, p \in PublicKeys, i \in Identifiers :
              Apply(<<"Coordinate", "from_str",
                      [kind |-> k, pubkey |-> p, identifier |-> i]>>,
                    Coordinate_from_str(text(k, p, i)))
       \/ \E k \in CoordKinds, p \in PublicKeys, i \in Identifiers, rs \in RelayLists :
              Apply(<<"Coordinate", "into_filter",
                      [kind |-> k, pubkey |-> p, identifier |-> i, relays |-> rs]>>,
                    Filter_from_Coordinate(
                        [kind |-> k, pubkey |-> p, identifier |-> i, relays |-> rs]))

(* SingleLetterTag::from_char and as_char *)
TagCall ==
    /\ call = <<"Filter", "new">>
    /\ LET Chars == Range(LowerChars) \cup Range(UpperChars)
                        \cup {"0", "9", "#", " ", "@", "[", "{"}
       IN
       \/ \E c \in Chars : Apply(<<"SingleLetterTag", "from_char", c>>, from_char(c))
       \/ \E t \in SingleLetterTag :
              Apply(<<"SingleLetterTag", "as_char", t>>, as_char(t))

(* SubscriptionId::new, its Deserialize, generate_with_rng, and generate  *)
(* (generate_with_rng on the bytes OsRng gives)                            *)
SubscriptionIdCall ==
    /\ call = <<"Filter", "new">>
    /\ LET Text(n) == [i \in 1..n |-> "a"]
           Lengths == {0, 1, 32, 64, 65}
       IN
       \/ \E n \in Lengths :
              Apply(<<"SubscriptionId", "new">>, SubscriptionId_new(Text(n)))
       \/ \E j \in {JStr(Text(n)) : n \in Lengths} \cup {JNull, JNum(1)} :
              Apply(<<"SubscriptionId", "deserialize">>, SubscriptionId_deserialize(j))
       \/ \E os_random \in {"00", "ff"} :
              Apply(<<"SubscriptionId", "generate_with_rng">>,
                    generate_with_rng(os_random))
       \/ \E os_random \in {"00", "ff"} :
              Apply(<<"SubscriptionId", "generate">>, generate_with_rng(os_random))

(* new() and default() of the option records; new() is Self::default().   *)
(* A RelayOptions is returned with the cells its fields name.              *)
DefaultCall ==
    \/ \E m \in {"new", "default"} :
           Apply(<<"RelayOptions", m>>,
                 [o |-> RelayOptions_default(0), heap |-> DefaultCells])
    \/ \E m \in {"new", "default"} :
           Apply(<<"RelaySendOptions", m>>, RelaySendOptions_default)
    \/ \E m \in {"new", "default"} :
           Apply(<<"RelayPoolOptions", m>>, RelayPoolOptions_default)
    \/ \E m \in {"new", "default"} :
           Apply(<<"NegentropyOptions", m>>, NegentropyOptions_default)
    \/ Apply(<<"FilterOptions", "default">>, FilterOptions_default)

(* A call on the RelayOptions `ret[3]`, made by the one thread there is: a *)
(* by-value builder gives the field a fresh cell, an update_* stores into  *)
(* the cell the field names if its guard lets it (fetch_update, alone,     *)
(* ends by storing).                                                       *)
OptionsChain ==
    /\ call[1] = "RelayOptions"
    /\ hist.n < MaxCalls
    /\ \E field \in Fields : \E x \in FieldInputs(field) :
         \/ /\ call' = <<"RelayOptions", "builder", field, x>>
            /\ ret' = <<"RelayOptions", "builder",
                       [o |-> [ret[3].o EXCEPT ![field] = Len(ret[3].heap) + 1],
                        heap |-> Append(ret[3].heap, builder_value(field, x))]>>
         \/ /\ call' = <<"RelayOptions", "update", field, x>>
            /\ ret' = <<"RelayOptions", "update",
                       IF update_accepts(field, x)
                       THEN [ret[3] EXCEPT !.heap[ret[3].o[field]] = x]
                       ELSE ret[3]>>
    /\ hist' = [hist EXCEPT !.n = @ + 1]
    /\ UNCHANGED filterVars
    /\ UNCHANGED optionsVars
    /\ UNCHANGED relayVars

(* A by-value setter of RelaySendOptions on the value `ret[3]`; the call is *)
(* recorded with its receiver.                                             *)
SendOptionsChain ==
    /\ call[1] = "RelaySendOptions"
    /\ hist.n < MaxCalls
    /\ \/ \E v \in BOOLEAN :
            /\ call' = <<"RelaySendOptions", "skip_disconnected", v, ret[3]>>
            /\ ret' = <<"RelaySendOptions", "skip_disconnected",
                        skip_disconnected(ret[3], v)>>
       \/ \E d \in {None, Some(1), Some(DEFAULT_SEND_TIMEOUT), Some(20)} :
            /\ call' = <<"RelaySendOptions", "timeout", d, ret[3]>>
            /\ ret' = <<"RelaySendOptions", "timeout", timeout(ret[3], d)>>
    /\ hist' = [hist EXCEPT !.n = @ + 1]
    /\ UNCHANGED filterVars
    /\ UNCHANGED optionsVars
    /\ UNCHANGED relayVars

(* do_up() and do_down() of a NegentropyDirection, as the reconciliation   *)
(* asks both of the direction it was given                                 *)
NegentropyCall ==
    \E d \in {"Up", "Down", "Both"} :
        Apply(<<"NegentropyDirection", "do_up_do_down", d>>,
              [do_up |-> do_up(d), do_down |-> do_down(d)])

NextCall ==
    \/ FilterChain \/ CoordinateCall \/ TagCall \/ SubscriptionIdCall
    \/ DefaultCall \/ OptionsChain \/ SendOptionsChain \/ NegentropyCall

Init == InitFilter /\ InitOptions /\ InitRelay /\ InitCall

Next == NextFilter \/ NextOptions \/ NextRelay \/ NextCall

Spec == Init /\ [][Next]_vars

FilterSpec == Init /\ [][NextFilter]_vars
OptionsSpec == Init /\ [][NextOptions]_vars
RelaySpec == Init /\ [][NextRelay]_vars

(* The retry loop is a task of its own: it is not starved for ever *)
RelayFairSpec == RelaySpec /\ WF_vars(AutoRetry)

(* Sequential calls on one value *)
CallSpec == Init /\ [][NextCall]_vars

(***************************************************************************)
(* Properties of the filter component                                      *)
(***************************************************************************)
Parsed == fpc \in {"roundtrip", "decoded"}
Letters ==
    {LowerChars[i] : i \in DOMAIN LowerChars} \cup {UpperChars[i] : i \in DOMAIN UpperChars}
MalformedTagKey(k) == Len(k) = 2 /\ k[1] = "#" /\ k[2] \notin Letters
UnknownKey(k) == k \notin FixedKeys /\ ~(Len(k) = 2 /\ k[1] = "#")
TypedTags == {lowercase("E"), lowercase("P"), uppercase("P")}

(* C1: a filter built with the public builder methods is returned      *)
(* unchanged by Filter::from_json(f.as_json()).                         *)
C1_RoundTrip == fpc = "roundtrip" => parsed = Ok(filter)

(* C2: after a successful deserialization every well-formed event id    *)
(* listed under "#e" is in the entry of e as an EventId value, and every *)
(* well-formed public key listed under "#p" or "#P" is in the entry of   *)
(* that tag as a Pubkey value.                                           *)
C2_TypedDecoding ==
    (Parsed /\ IsOk(parsed)) =>
        /\ <<"#", "e">> \in DOMAIN json =>
              \A x \in json[<<"#", "e">>][2] :
                  IsOk(EventId_from_hex(x[2])) =>
                      EventIdValue(EventId_from_hex(x[2])[2])
                          \in parsed[2].generic_tags[lowercase("E")]
        /\ \A k \in {<<"#", "p">>, <<"#", "P">>} \cap DOMAIN json :
              \A x \in json[k][2] :
                  IsOk(XOnlyPublicKey_from_str(x[2])) =>
                      Pubkey(XOnlyPublicKey_from_str(x[2])[2])
                          \in parsed[2].generic_tags[from_char(k[2])[2]]

(* C3: after a successful deserialization every value held under a tag   *)
(* other than e, p and P is of the String variant.                       *)
C3_OtherLettersStayString ==
    (Parsed /\ IsOk(parsed)) =>
        \A t \in DOMAIN parsed[2].generic_tags \ TypedTags :
            \A v \in parsed[2].generic_tags[t] : v.variant = "String"

(* C4 as claimed: a key "#c" whose c is no letter is ignored, the result *)
(* being that of the same object without the key.                        *)
C4_MalformedKeyIgnored ==
    Parsed =>
        \A k \in DOMAIN json :
            (MalformedTagKey(k) /\ IsOk(from_json(Without(json, k)))) =>
                parsed = from_json(Without(json, k))

(* C4 as amended: deserializing an object that holds a key "#c" whose c  *)
(* is no letter fails.                                                   *)
C4_MalformedKeyFails ==
    Parsed => ((\E k \in DOMAIN json : MalformedTagKey(k)) => ~IsOk(parsed))

C4_Witness ==
    /\ fpc = "decoded"
    /\ ~IsOk(parsed)
    /\ \E k \in DOMAIN json :
           MalformedTagKey(k) /\ IsOk(from_json(Without(json, k)))

(* C5: a key that is neither a fixed field nor two characters starting   *)
(* with '#' changes nothing, whatever its value: the result, success or   *)
(* failure, is that of the same object without the key.                   *)
C5_UnknownKeysDropped ==
    Parsed =>
        \A k \in DOMAIN json :
            UnknownKey(k) => parsed = from_json(Without(json, k))

C5_Witness ==
    /\ fpc = "decoded"
    /\ IsOk(parsed)
    /\ parsed[2] # Filter_default
    /\ \E k \in DOMAIN json : UnknownKey(k) /\ json[k][1] = "arr" /\ json[k][2] # {}

(* C6: the JSON object of a filter built by builder and remove_* calls   *)
(* holds no empty array and no null.                                     *)
C6_NoEmptyCollections ==
    fpc = "serialized" =>
        \A k \in DOMAIN json :
            /\ json[k][1] # "null"
            /\ json[k][1] = "arr" => json[k][2] # {}

(***************************************************************************)
(* Properties of the options component                                     *)
(***************************************************************************)
(* C7 as claimed: whatever calls were made, the retry delay is within    *)
(* MIN_RETRY_SEC .. MAX_ADJ_RETRY_SEC.                                   *)
C7_DelayWithinBounds ==
    \A h \in DOMAIN opts, n \in 1..MaxAttempts :
        retry_delay(h, n) >= 5 /\ retry_delay(h, n) <= 60

(* C7 as amended: the retry delay is at least MIN_RETRY_SEC, and at most *)
(* MAX_ADJ_RETRY_SEC when adjust_retry_sec is set.                       *)
C7_DelayAtLeastMin ==
    \A h \in DOMAIN opts, n \in 1..MaxAttempts :
        /\ retry_delay(h, n) >= 5
        /\ cells[opts[h].adjust_retry_sec] => retry_delay(h, n) <= 60

C7_Witness ==
    \E h \in DOMAIN opts :
        /\ cells[opts[h].retry_sec] > 60
        /\ cells[opts[h].adjust_retry_sec]
        /\ retry_delay(h, 1) = 60

(* C8: every read returns the cell's initial value or an accepted        *)
(* update; once no update is in flight a cell holds the value of an       *)
(* accepted update that no later accepted update followed; and the        *)
(* clones of a value read the same value.                                 *)
C8_LiveUpdatesSafe ==
    /\ lastRead # None => lastRead[2].valid
    /\ \A c \in DOMAIN cells : InFlight(c) = {} => cells[c] \in settled[c]
    /\ \A x \in shared : cells[opts[x[2]][x[1]]] = cells[opts[x[3]][x[1]]]

C8_Witness ==
    /\ \A t \in Threads : thr[t].pc = "idle"
    /\ \E x \in shared :
           /\ x[2] # x[3]
           /\ Cardinality(settled[opts[x[2]][x[1]]]) = 2
    /\ lastRead # None
    /\ lastRead[2].field = "retry_sec"
    /\ lastRead[2].value # 10

(***************************************************************************)
(* Properties of the relay component                                       *)
(***************************************************************************)
ReconnectFlag == cells[opts[RelayHandle].reconnect]

(* C9: a subscription made and not unsubscribed stays in the relay's      *)
(* table with its filters through disconnects and reconnects, and its REQ  *)
(* is out on every connection.                                             *)
C9_SubscriptionsSurvive ==
    \A s \in DOMAIN expected :
        /\ s \in DOMAIN subs
        /\ subs[s] = expected[s]
        /\ status = "Connected" => s \in sent

C9_Witness ==
    /\ status = "Connected"
    /\ connections = 2
    /\ lastEvent = "open"
    /\ DOMAIN expected = SubIds

(* C10: the relay leaves Disconnected for Connecting only while the       *)
(* reconnect flag is set, and while it is set a Disconnected relay does    *)
(* leave Disconnected.                                                     *)
C10_AutoReconnectGated ==
    /\ [][(status = "Disconnected" /\ status' = "Connecting") => ReconnectFlag]_vars
    /\ (status = "Disconnected" /\ ReconnectFlag)
           ~> (status # "Disconnected" \/ ~ReconnectFlag)

C10_Witness ==
    /\ status = "Connecting"
    /\ lastEvent = "auto_retry"
    /\ connections >= 1

(***************************************************************************)
(* Properties of sequential calls                                          *)
(***************************************************************************)
FilterChained == call[1] = "Filter"

(* C11: after any sequence of kind(k) and kinds([...]) calls the kinds    *)
(* field is the union of the kinds added, whatever the order, the         *)
(* grouping and the repetitions, so a filter built by such calls alone is  *)
(* the one a single kinds call with that union builds.                    *)
C11_KindsAreSet ==
    FilterChained =>
        /\ ret[3].kinds = hist.kinds
        /\ (hist.ids = {} /\ hist.touched = {}) =>
              ret[3] = kinds(Filter_new, hist.kinds)

C11_Witness ==
    /\ FilterChained
    /\ call[2] = "kinds"
    /\ hist.n = 3
    /\ ret[3] = kinds(Filter_new, Kinds)

(* C12: remove_ids(V) leaves ids equal to the ids before minus V, changes *)
(* no other field, gives the filter built with only the remaining ids,    *)
(* and changes nothing when no id of V is present.                        *)
C12_RemoveIdsIsDifference ==
    [][(call'[1] = "Filter" /\ call'[2] = "remove_ids" /\ hist'.n = hist.n + 1) =>
          /\ ret'[3].ids = ret[3].ids \ call'[3]
          /\ ret'[3] = [ret[3] EXCEPT !.ids = ret'[3].ids]
          /\ ret'[3].ids = hist'.ids
          /\ (hist'.kinds = {} /\ hist'.touched = {}) =>
                ret'[3] = ids(Filter_new, hist'.ids)
          /\ (call'[3] \cap ret[3].ids = {}) => ret'[3] = ret[3]]_vars

C12_Witness ==
    /\ FilterChained
    /\ call[2] = "remove_ids"
    /\ call[3] # {}
    /\ ret[3].ids # {}
    /\ hist.n = 3

(* C13: under every tag that has a convenience adder the filter holds     *)
(* exactly the values added and not removed since, and when every tag      *)
(* that values were added to keeps a value, the generic tags are those of  *)
(* the filter built by adding only the remaining values.                   *)
C13_TagValuesAreSets ==
    FilterChained =>
        /\ \A t \in ChainTags :
              (IF t \in DOMAIN ret[3].generic_tags THEN ret[3].generic_tags[t] ELSE {})
                  = hist.tags[t]
        /\ (\A t \in hist.touched : hist.tags[t] # {}) =>
              ret[3].generic_tags = [t \in hist.touched |-> hist.tags[t]]

C13_Witness ==
    /\ FilterChained
    /\ call[2] = "remove_custom_tag"
    /\ hist.n = 3
    /\ hist.touched = {lowercase("E")}
    /\ Cardinality(hist.tags[lowercase("E")]) = 1

(* C14: parsing the text "k:p_hex:i" gives the coordinate of kind k,      *)
(* public key p and identifier i, with no relays.                         *)
C14_CoordinateParsed ==
    (call[1] = "Coordinate" /\ call[2] = "from_str") =>
        ret[3] = Ok([kind |-> call[3].kind, pubkey |-> call[3].pubkey,
                  identifier |-> call[3].identifier, relays |-> <<>>])

(* C15: the filter of a coordinate has its kind, its public key, the      *)
(* identifier under #d exactly when the identifier is not empty, and      *)
(* nothing else; the relays play no part.                                 *)
C15_CoordinateFilter ==
    (call[1] = "Coordinate" /\ call[2] = "into_filter") =>
        /\ ret[3].kinds = {call[3].kind}
        /\ ret[3].authors = {call[3].pubkey}
        /\ ret[3].ids = {} /\ ret[3].search = None
        /\ ret[3].since = None /\ ret[3].until = None /\ ret[3].limit = None
        /\ ret[3].generic_tags =
              IF call[3].identifier = <<>>
              THEN EmptyMap
              ELSE (lowercase("D") :> {StringValue(call[3].identifier)})

C15_Witness ==
    /\ call[1] = "Coordinate" /\ call[2] = "into_filter"
    /\ call[3].identifier # <<>>
    /\ call[3].relays # <<>>
    /\ lowercase("D") \in DOMAIN ret[3].generic_tags

(* C16: from_char and as_char are inverse on the 52 letters, every other  *)
(* character is an InvalidChar, tags that differ in case differ, and a    *)
(* generic tag is written under the key '#' and its character in its      *)
(* case.                                                                  *)
C16_CharRoundTrip ==
    /\ (call[1] = "SingleLetterTag" /\ call[2] = "from_char") =>
          IF \E i \in DOMAIN LowerChars : call[3] \in {LowerChars[i], UpperChars[i]}
          THEN /\ IsOk(ret[3])
               /\ as_char(ret[3][2]) = call[3]
               /\ \A i \in DOMAIN LowerChars :
                     /\ call[3] = LowerChars[i] => ret[3][2] = lowercase(UpperChars[i])
                     /\ call[3] = UpperChars[i] => ret[3][2] = uppercase(UpperChars[i])
          ELSE ret[3] = Err("InvalidChar")
    /\ (call[1] = "SingleLetterTag" /\ call[2] = "as_char") =>
          /\ from_char(ret[3]) = Ok(call[3])
          /\ lowercase(call[3].character) # uppercase(call[3].character)
          /\ as_char(lowercase(call[3].character)) # as_char(uppercase(call[3].character))
          /\ DOMAIN as_json(custom_tag(Filter_new, call[3], {StringValue("test")}))
                 = {<<"#", ret[3]>>}
          /\ call[3] = uppercase("P") => ret[3] = "P"
          /\ call[3] = lowercase("P") => ret[3] = "p"

C16_Witness ==
    /\ call[1] = "SingleLetterTag" /\ call[2] = "as_char"
    /\ call[3] = uppercase("P")
    /\ ret[3] = "P"

(* C17: a SubscriptionId, made by new, by deserialization or generated,   *)
(* has at most 64 characters, and a generated one is 32 lowercase hex      *)
(* characters.                                                             *)
C17_SubscriptionIdBounded ==
    /\ (call[1] = "SubscriptionId" /\ call[2] # "deserialize") => Len(ret[3]) <= 64
    /\ (call[1] = "SubscriptionId" /\ call[2] = "deserialize" /\ IsOk(ret[3])) =>
          Len(ret[3][2]) <= 64
    /\ (call[1] = "SubscriptionId" /\ call[2] \in {"generate", "generate_with_rng"}) =>
          /\ Len(ret[3]) = 32
          /\ \A i \in DOMAIN ret[3] :
                ret[3][i] \in {"0", "1", "2", "3", "4", "5", "6", "7", "8", "9",
                            "a", "b", "c", "d", "e", "f"}

(* C18: the default-constructed option records hold the defaults of the   *)
(* options table, and new() gives what default() gives.                    *)
C18_Defaults ==
    /\ (call[1] = "RelayOptions" /\ call[2] \in {"new", "default"}) =>
          /\ ret[3].o.flags = {"READ", "WRITE"}
          /\ ret[3].o.proxy = None
          /\ ret[3].heap[ret[3].o.reconnect] = TRUE
          /\ ret[3].heap[ret[3].o.retry_sec] = 10
          /\ ret[3].heap[ret[3].o.adjust_retry_sec] = TRUE
    /\ (call[1] = "RelaySendOptions" /\ call[2] \in {"new", "default"}) =>
          ret[3] = [skip_disconnected |-> TRUE, timeout |-> 10]
    /\ (call[1] = "RelayPoolOptions" /\ call[2] \in {"new", "default"}) =>
          ret[3] = [notification_channel_size |-> 4096, task_channel_size |-> 4096,
                 shutdown_on_drop |-> FALSE]
    /\ (call[1] = "NegentropyOptions" /\ call[2] \in {"new", "default"}) =>
          ret[3] = [initial_timeout |-> 10, direction |-> "Down"]
    /\ call[1] = "FilterOptions" => ret[3] = <<"ExitOnEOSE">>

C18_Witness ==
    /\ call = <<"RelayOptions", "new">>
    /\ ret[3].heap[ret[3].o.retry_sec] = 10

(* The value of a field of the RelayOptions r *)
FieldOf(r, field) == r.heap[r.o[field]]

(* C19: the builder retry_sec(x) stores x if x >= 5 and 10 otherwise,     *)
(* whatever was held before, and leaves reconnect, adjust_retry_sec,       *)
(* flags and proxy as they were.                                           *)
C19_BuilderFallback ==
    [][(/\ call'[1] = "RelayOptions" /\ call'[2] = "builder"
        /\ call'[3] = "retry_sec" /\ hist'.n = hist.n + 1) =>
          /\ FieldOf(ret'[3], "retry_sec") = IF call'[4] >= 5 THEN call'[4] ELSE 10
          /\ FieldOf(ret'[3], "reconnect") = FieldOf(ret[3], "reconnect")
          /\ FieldOf(ret'[3], "adjust_retry_sec") = FieldOf(ret[3], "adjust_retry_sec")
          /\ ret'[3].o.flags = ret[3].o.flags
          /\ ret'[3].o.proxy = ret[3].o.proxy]_vars

C19_Witness ==
    /\ call = <<"RelayOptions", "builder", "retry_sec", 4>>
    /\ hist.n >= 2
    /\ FieldOf(ret[3], "retry_sec") = 10
    /\ ret[3].heap[RelayOptions_default(0).retry_sec] = 61
    /\ ~FieldOf(ret[3], "reconnect")

(* C20: update_retry_sec(x) with x < 5 changes nothing, get_retry_sec     *)
(* answering after it what it answered before; with x >= 5 the stored      *)
(* value becomes x; in both cases no other field changes.                  *)
C20_RejectedUpdate ==
    [][(/\ call'[1] = "RelayOptions" /\ call'[2] = "update"
        /\ call'[3] = "retry_sec" /\ hist'.n = hist.n + 1) =>
          /\ call'[4] < 5 => ret'[3] = ret[3]
          /\ call'[4] >= 5 => FieldOf(ret'[3], "retry_sec") = call'[4]
          /\ ret'[3].o = ret[3].o
          /\ \A c \in DOMAIN ret[3].heap :
                c # ret[3].o.retry_sec => ret'[3].heap[c] = ret[3].heap[c]]_vars

C20_Witness ==
    /\ call = <<"RelayOptions", "update", "retry_sec", 4>>
    /\ hist.n >= 2
    /\ FieldOf(ret[3], "retry_sec") = 61

(* C21: Coordinate::from_str answers InvalidCoordinate for a text of fewer *)
(* than three segments; with three or more, ParseInt if the kind segment  *)
(* is no number, whatever the pubkey segment is, else Secp256k1 if the     *)
(* pubkey segment is no public key, else a Coordinate with all its fields. *)
C21_ParseErrors ==
    (call[1] = "Coordinate" /\ call[2] = "from_str_text") =>
        LET s == call[3]
            colons == {i \in DOMAIN s : s[i] = ":"}
            c1 == CHOOSE i \in colons : \A j \in colons : i <= j
            c2 == CHOOSE i \in colons \ {c1} : \A j \in colons \ {c1} : i <= j
            kind_ok == c1 > 1 /\ \A i \in 1..(c1 - 1) : s[i] \in Range(Digits)
            pubkey_ok == c2 = c1 + 2 /\ \E p \in PublicKeys : s[c1 + 1] = to_hex(p)
        IN IF Cardinality(colons) < 2 THEN ret[3] = Err("InvalidCoordinate")
           ELSE IF ~kind_ok THEN ret[3] = Err("ParseInt")
           ELSE IF ~pubkey_ok THEN ret[3] = Err("Secp256k1")
           ELSE /\ IsOk(ret[3])
                /\ DOMAIN ret[3][2] = {"kind", "pubkey", "identifier", "relays"}
                /\ ret[3][2].pubkey \in PublicKeys

(* a text of three segments whose kind and pubkey segments are both bad *)
C21_Witness ==
    /\ call = <<"Coordinate", "from_str_text", <<"x", ":", "x", ":">>>>
    /\ ret[3] = Err("ParseInt")

(* C22: timeout(Some(d)) sets the timeout to d and timeout(None) to the    *)
(* default of 10 seconds whatever it was, skip_disconnected(v) sets the    *)
(* flag to v, and each leaves the other field as the receiver had it.      *)
C22_SendOptionsSetters ==
    /\ (call[1] = "RelaySendOptions" /\ call[2] = "timeout") =>
          /\ ret[3].timeout = IF call[3] = None THEN 10 ELSE call[3][2]
          /\ ret[3].skip_disconnected = call[4].skip_disconnected
          /\ DOMAIN ret[3] = {"skip_disconnected", "timeout"}
    /\ (call[1] = "RelaySendOptions" /\ call[2] = "skip_disconnected") =>
          /\ ret[3].skip_disconnected = call[3]
          /\ ret[3].timeout = call[4].timeout
          /\ DOMAIN ret[3] = {"skip_disconnected", "timeout"}

(* timeout(None) on options whose timeout had been set to 20 seconds and   *)
(* whose flag had been cleared                                             *)
C22_Witness ==
    /\ call = <<"RelaySendOptions", "timeout", None,
                [skip_disconnected |-> FALSE, timeout |-> 20]>>
    /\ ret[3] = [skip_disconnected |-> FALSE, timeout |-> 10]

(* C23: do_up() is true exactly for Up and Both and do_down() exactly for *)
(* Down and Both, so every direction has a phase, Both has both, and the   *)
(* default direction has the down phase only.                              *)
C23_DirectionPhases ==
    call[1] = "NegentropyDirection" =>
        /\ ret[3].do_up <=> (call[3] = "Up" \/ call[3] = "Both")
        /\ ret[3].do_down <=> (call[3] = "Down" \/ call[3] = "Both")
        /\ ret[3].do_up \/ ret[3].do_down
        /\ call[3] = "Both" => (ret[3].do_up /\ ret[3].do_down)
        /\ call[3] = NegentropyOptions_default.direction =>
              (ret[3].do_down /\ ~ret[3].do_up)

C23_Witness ==
    /\ call = <<"NegentropyDirection", "do_up_do_down", "Both">>
    /\ ret[3] = [do_up |-> TRUE, do_down |-> TRUE]

(* C24: a by-value builder gives its result a fresh cell for the field it  *)
(* sets and changes no value any other handle reads; two handles read a    *)
(* field from one cell exactly when one is a clone of the other not        *)
(* rebuilt for that field since; and a store of update_* is seen through   *)
(* the handle it was called on and the handles sharing that field with it, *)
(* and through no other.                                                   *)
C24_BuildersDetach ==
    [][/\ \A f \in Fields : \A a \in DOMAIN opts' : \A b \in DOMAIN opts' \ {a} :
              (<<f, a, b>> \in shared') <=> (opts'[a][f] = opts'[b][f])
       /\ \A h \in DOMAIN opts : \A f \in Fields :
              opts'[h][f] # opts[h][f] =>
                 /\ opts'[h][f] \notin DOMAIN cells
                 /\ \A a \in DOMAIN opts' : \A g \in Fields :
                        <<a, g>> # <<h, f>> =>
                           /\ opts'[a][g] # opts'[h][f]
                           /\ opts'[a][g] = opts[a][g]
                           /\ cells'[opts'[a][g]] = cells[opts[a][g]]
       /\ \A b \in DOMAIN opts : \A f \in Fields :
              (opts'[b][f] = opts[b][f] /\ cells'[opts'[b][f]] # cells[opts[b][f]]) =>
                 \E t \in Threads :
                    /\ thr[t].pc = "cas" /\ thr[t].field = f
                    /\ thr[t].h = b \/ <<f, thr[t].h, b>> \in shared
                    /\ cells'[opts'[b][f]] = thr[t].val]_vars

(* b = a.clone() was rebuilt with reconnect(true), and an update_reconnect *)
(* (false) on a has stored since: a reads false, b reads true from its own *)
(* cell, and retry_sec is still shared                                     *)
C24_Witness ==
    /\ Len(opts) = 2
    /\ opts[1].reconnect = RelayOptions_default(0).reconnect
    /\ opts[2].reconnect \notin DOMAIN DefaultCells
    /\ opts[2].retry_sec = opts[1].retry_sec
    /\ <<"retry_sec", 1, 2>> \in shared
    /\ <<"reconnect", 1, 2>> \notin shared
    /\ \E t \in Threads :
          /\ thr[t].pc = "ret" /\ thr[t].h = 1 /\ thr[t].field = "reconnect"
          /\ thr[t].val = FALSE
    /\ ~get_reconnect(1)
    /\ get_reconnect(2)

(* C25: remove_custom_tag(t, V) leaves the tags that have an entry as they *)
(* were: with no entry for t the filter is returned unchanged, with one    *)
(* the entry stays, less V, also when nothing is left in it; so after      *)
(* custom_tag(t, V) and remove_custom_tag(t, V) on Filter::new() the entry *)
(* of t is the empty set, the filter differs from Filter::new() and        *)
(* is_empty() is false.                                                    *)
C25_RemoveKeepsKeys ==
    [][(/\ call'[1] = "Filter" /\ call'[2] = "remove_custom_tag"
        /\ hist'.n = hist.n + 1) =>
          /\ DOMAIN ret'[3].generic_tags = DOMAIN ret[3].generic_tags
          /\ call'[3] \notin DOMAIN ret[3].generic_tags => ret'[3] = ret[3]
          /\ call'[3] \in DOMAIN ret[3].generic_tags =>
                ret'[3].generic_tags[call'[3]] =
                    ret[3].generic_tags[call'[3]] \ call'[4]
          /\ (/\ hist.n = 1 /\ call[2] = "custom_tag"
              /\ call[3] = call'[3] /\ call[4] = call'[4]) =>
                /\ ret'[3].generic_tags = (call'[3] :> {})
                /\ ret'[3] # Filter_new
                /\ ~is_empty(ret'[3])]_vars

(* Filter::new().custom_tag(d, V).remove_custom_tag(d, V), V not empty *)
C25_Witness ==
    /\ call[1] = "Filter" /\ call[2] = "remove_custom_tag"
    /\ call[3] = lowercase("D") /\ call[4] # {}
    /\ hist.n = 2
    /\ hist.touched = {lowercase("D")}
    /\ ret[3] = remove_custom_tag(custom_tag(Filter_new, call[3], call[4]),
                                  call[3], call[4])
    /\ ret[3].generic_tags = (lowercase("D") :> {})
    /\ ~is_empty(ret[3])

====
